---- MODULE Spec2Model ----
(***************************************************************************)
(* Model of backupSummary.py: the snapshot-history analyzer.               *)
(*                                                                         *)
(* Representation of Python values                                         *)
(*   None / absent dict key      <<>>            (None)                    *)
(*   a present value v           <<v>>           (Some(v))                 *)
(*   a number                    [n, d, f]       the rational n/d; f is    *)
(*                                               TRUE for a Python float   *)
(*   a dict                      a record whose optional keys hold None    *)
(*                               or Some(v)                                *)
(* Byte counts are carried in units of 1024 bytes (the input domain holds  *)
(* multiples of 1024 only), so that 2147483648 bytes stays within 32-bit  *)
(* integers. Durations in the input are whole seconds, transfer speeds     *)
(* are multiples of 0.1 MB/s. JSON null is not distinguished from an       *)
(* absent key.                                                             *)
(***************************************************************************)
EXTENDS Integers, Sequences, FiniteSets, TLC

VARIABLES
    pc,            \* position of main(): the statement it executes next
    argv,          \* sys.argv[1:], the command-line arguments
    inputFile,     \* the input path on disk: missing, invalid JSON, or a list
    outputFile,    \* the output path on disk
    snapshots,     \* main: the loaded list; generate_cluster_summary: its argument
    idx,           \* the index of the running loop (main: lines 310-317,
                   \* analyze_snapshot: lines 110-129)
    clusters,      \* main: the defaultdict(list) of line 308
    todo,          \* main: what is left of sorted(clusters.keys()) (line 328)
    summary,       \* the last return value of generate_cluster_summary
    report,        \* main: the list `report` (line 320)
    exitStatus,    \* the process exit status, None while running
    snapshot,      \* analyze_snapshot: its argument
    totals,        \* analyze_snapshot: the accumulators of lines 102-107
    result         \* analyze_snapshot: its return value

vars == <<pc, argv, inputFile, outputFile, snapshots, idx, clusters, todo,
          summary, report, exitStatus, snapshot, totals, result>>

-----------------------------------------------------------------------------
(* Python values *)

None == <<>>
Some(v) == <<v>>

PyInt(k) == [n |-> k, d |-> 1, f |-> FALSE]
PyFloat(k, den) == [n |-> k, d |-> den, f |-> TRUE]

\* bool(x) of an optional number: None and 0 are falsy
Truthy(x) == x # None /\ x[1].n # 0

\* a + b
NumAdd(a, b) ==
    IF a.d = b.d
    THEN [n |-> a.n + b.n, d |-> a.d, f |-> a.f \/ b.f]
    ELSE [n |-> a.n * b.d + b.n * a.d, d |-> a.d * b.d, f |-> a.f \/ b.f]

\* a / k, true division by a positive count: always a float
NumDiv(a, k) == [n |-> a.n, d |-> a.d * k, f |-> TRUE]

NumLess(a, b) == a.n * b.d < b.n * a.d
NumEq(a, b) == a.n * b.d = b.n * a.d

\* n/d rounded to the nearest integer, an exact tie to the even neighbour (what
\* round() does for a quotient the float holds exactly; the input domains below
\* produce no tie on a quotient that a float cannot hold exactly)
RoundDiv(n, d) ==
    LET q == n \div d
        r == n % d
    IN  IF 2 * r < d THEN q
        ELSE IF 2 * r > d THEN q + 1
        ELSE IF q % 2 = 0 THEN q ELSE q + 1

\* round(x, ndigits) with scale = 10^ndigits; round() of an int with
\* ndigits > 0 is that int
PyRound(x, scale) ==
    IF x.f THEN PyFloat(RoundDiv(scale * x.n, x.d), scale) ELSE x

\* str() of a non-negative float that round() produced (d is 10 or 100):
\* the shortest repr, with at least one decimal
FloatStr(x) ==
    LET h  == IF x.d = 10 THEN x.n * 10 ELSE x.n
        ip == h \div 100
        fp == h % 100
    IN  IF fp % 10 = 0
        THEN ToString(ip) \o "." \o ToString(fp \div 10)
        ELSE ToString(ip) \o "." \o (IF fp < 10 THEN "0" ELSE "") \o ToString(fp)

\* str() of a number inside an f-string
NumStr(x) == IF x.f THEN FloatStr(x) ELSE ToString(x.n)

-----------------------------------------------------------------------------
(* Lines 14-27 *)

units == <<"B", "KB", "MB", "GB", "TB", "PB">>

\* the while loop of lines 23-25 on value = n/d at index unit_index
RECURSIVE BytesLoop(_, _, _)
BytesLoop(n, d, unit_index) ==
    IF n \div d >= 1024 /\ unit_index < Len(units) - 1
    THEN BytesLoop(n, d * 1024, unit_index + 1)
    ELSE <<Some(PyRound(PyFloat(n, d), 100)), Some(units[unit_index + 1])>>

\* bytes_val counts units of 1024 bytes: a nonzero value is >= 1024 bytes, the
\* first iteration of the loop is always taken and leaves value = bytes_val at
\* unit_index 1
bytes_to_human_readable(bytes_val) ==
    IF bytes_val = None \/ bytes_val[1].n = 0
    THEN <<None, None>>
    ELSE BytesLoop(bytes_val[1].n, bytes_val[1].d, 1)

(* Lines 30-46 *)
IsOne(value) == value.n = value.d

\* variant: the unit is never put in the singular
seconds_always_plural(seconds) ==
    IF seconds = None \/ seconds[1].n = 0
    THEN <<None, None>>
    ELSE LET s == seconds[1] IN
         IF NumLess(s, PyInt(60)) THEN <<Some(PyRound(s, 10)), Some("seconds")>>
         ELSE IF NumLess(s, PyInt(3600))
         THEN <<Some(PyRound(NumDiv(s, 60), 10)), Some("minutes")>>
         ELSE <<Some(PyRound(NumDiv(s, 3600), 10)), Some("hours")>>

seconds_to_human_readable(seconds) ==
    IF seconds = None \/ seconds[1].n = 0
    THEN <<None, None>>
    ELSE LET s == seconds[1] IN
         IF NumLess(s, PyInt(60))
         THEN LET value == PyRound(s, 10)
              IN  <<Some(value), Some(IF IsOne(value) THEN "second" ELSE "seconds")>>
         ELSE IF NumLess(s, PyInt(3600))
         THEN LET value == PyRound(NumDiv(s, 60), 10)
              IN  <<Some(value), Some(IF IsOne(value) THEN "minute" ELSE "minutes")>>
         ELSE LET value == PyRound(NumDiv(s, 3600), 10)
              IN  <<Some(value), Some(IF IsOne(value) THEN "hour" ELSE "hours")>>

(* Lines 50-57 *)
MonthAbbr == <<"Jan", "Feb", "Mar", "Apr", "May", "Jun",
               "Jul", "Aug", "Sep", "Oct", "Nov", "Dec">>

\* datetime.utcfromtimestamp(secs).strftime('%b %d') for 0 <= secs: the
\* proleptic Gregorian date of day secs \div 86400 since 1970-01-01
StrfMonthDay(secs) ==
    LET z   == (secs \div 86400) + 719468
        era == z \div 146097
        doe == z - era * 146097
        yoe == (doe - doe \div 1460 + doe \div 36524 - doe \div 146096) \div 365
        doy == doe - (365 * yoe + yoe \div 4 - yoe \div 100)
        mp  == (5 * doy + 2) \div 153
        day == doy - (153 * mp + 2) \div 5 + 1
        mon == IF mp < 10 THEN mp + 3 ELSE mp - 9
    IN  MonthAbbr[mon] \o " " \o (IF day < 10 THEN "0" ELSE "") \o ToString(day)

\* An epoch value is [cls, secs]. cls says what utcfromtimestamp does with it:
\*   "in_range"           a date exists (secs holds the value)
\*   "year_out_of_range"  ValueError, e.g. a millisecond timestamp 1700000000000
\*   "time_t_overflow"    OverflowError, e.g. 1e19
\*   "not_a_number"       TypeError, e.g. the string "1700000000"
\* The except clause of line 56 names ValueError and OSError only; any other
\* exception leaves the function. Returns [exc, val].
epoch_to_date(epoch_time) ==
    IF epoch_time = None THEN [exc |-> "", val |-> None]
    ELSE LET e == epoch_time[1] IN
         CASE e.cls = "in_range" -> [exc |-> "", val |-> Some(StrfMonthDay(e.secs))]
           [] e.cls = "year_out_of_range" -> [exc |-> "", val |-> None]
           [] e.cls = "time_t_overflow" -> [exc |-> "OverflowError", val |-> None]
           [] e.cls = "not_a_number" -> [exc |-> "TypeError", val |-> None]

(* Lines 60-64 *)
format_speed(speed) ==
    IF speed = None \/ speed[1].n = 0 THEN None ELSE Some(PyRound(speed[1], 10))

(* Lines 67-78: an _id is [kind, v], kind "oid" for {"$oid": v}, "str" for a
   plain string v *)
get_snapshot_id(s) ==
    IF s.clustershotId # None THEN s.clustershotId[1]
    ELSE IF s.id # None THEN s.id[1].v
    ELSE "N/A"

-----------------------------------------------------------------------------
(* Lines 81-164 *)

\* variant: the two values are added instead of the first truthy one taken
PyOrAddsBoth(x, y) ==
    Some(NumAdd(IF Truthy(x) THEN x[1] ELSE PyInt(0), IF Truthy(y) THEN y[1] ELSE PyInt(0)))

\* x or y
PyOr(x, y) == IF Truthy(x) THEN x ELSE y

\* v if v else 0
OrZero(x) == IF Truthy(x) THEN x[1] ELSE PyInt(0)

\* one iteration of the loop of lines 110-129 on the accumulators
MetadataStep(acc, rs_metadata) ==
    IF rs_metadata.state # Some("COMPLETE")
    THEN [acc EXCEPT !.all_complete = FALSE]
    ELSE LET new_bytes   == PyOr(rs_metadata.numNewBytes, rs_metadata.numNewCompressedBytes)
             data_upload == rs_metadata.dataBlockUploadDuration
             speed       == rs_metadata.transferSpeed
             counted     == Truthy(speed) /\ speed[1].n > 0
         IN  [ total_new_bytes |-> NumAdd(acc.total_new_bytes, OrZero(new_bytes)),
               total_data_upload_duration |->
                   NumAdd(acc.total_data_upload_duration, OrZero(data_upload)),
               total_transfer_speed_sum |->
                   IF counted THEN NumAdd(acc.total_transfer_speed_sum, speed[1])
                   ELSE acc.total_transfer_speed_sum,
               transfer_speed_count |->
                   IF counted THEN acc.transfer_speed_count + 1
                   ELSE acc.transfer_speed_count,
               all_complete |-> acc.all_complete,
               has_metrics |->
                   \/ acc.has_metrics
                   \/ Truthy(rs_metadata.numNewBytes)
                   \/ Truthy(rs_metadata.numNewCompressedBytes)
                   \/ Truthy(rs_metadata.dataBlockUploadDuration)
                   \/ Truthy(rs_metadata.transferSpeed) ]

RECURSIVE MetadataLoop(_, _, _)
MetadataLoop(snapshots_metadata, i, acc) ==
    IF i > Len(snapshots_metadata) THEN acc
    ELSE MetadataLoop(snapshots_metadata, i + 1, MetadataStep(acc, snapshots_metadata[i]))

\* lines 102-108: the accumulators before the loop
MetadataInit ==
    [ total_new_bytes |-> PyInt(0),
      total_data_upload_duration |-> PyInt(0),
      total_transfer_speed_sum |-> PyInt(0),
      transfer_speed_count |-> 0,
      all_complete |-> TRUE,
      has_metrics |-> FALSE ]

\* lines 138-141
avg_transfer_speed(acc) ==
    IF acc.transfer_speed_count > 0
    THEN Some(NumDiv(acc.total_transfer_speed_sum, acc.transfer_speed_count))
    ELSE None

\* lines 131-164, after the loop. Returns [exc, val]: val is None or Some(the
\* dict of lines 148-164); exc names the exception that leaves the function,
\* "" when it returns
AnalyzeTail(s, acc) ==
    LET total_duration == s.totalDuration
        start_time == IF s.startTime # None THEN s.startTime ELSE s.lastUpdateTS
        is_incremental == s.incrementalBackup = Some(TRUE)
    IN
    IF ~acc.all_complete THEN [exc |-> "", val |-> None]
    ELSE IF ~acc.has_metrics /\ total_duration = None THEN [exc |-> "", val |-> None]
    ELSE
    LET duration == seconds_to_human_readable(total_duration)
        new_bytes == bytes_to_human_readable(Some(acc.total_new_bytes))
        upload == seconds_to_human_readable(Some(acc.total_data_upload_duration))
        date == epoch_to_date(start_time)
    IN
    IF date.exc # "" THEN [exc |-> date.exc, val |-> None]
    ELSE [ exc |-> "",
           val |-> Some([
             snapshot_id |-> get_snapshot_id(s),
             date |-> date.val,
             epoch_time |-> start_time,
             duration_val |-> duration[1],
             duration_unit |-> duration[2],
             duration_seconds |-> total_duration,
             num_new_bytes |-> acc.total_new_bytes,
             num_new_bytes_val |-> new_bytes[1],
             num_new_bytes_unit |-> new_bytes[2],
             data_upload_val |-> upload[1],
             data_upload_unit |-> upload[2],
             data_upload_seconds |-> acc.total_data_upload_duration,
             transfer_speed |-> format_speed(avg_transfer_speed(acc)),
             is_incremental |-> is_incremental,
             backup_type |-> IF is_incremental THEN "Incremental" ELSE "Full" ]) ]

\* variant: only the state "FAILED" is skipped
NotCompleteOnlyFailed(s) == s.state = Some("FAILED")

\* line 87
NotComplete(s) == s.state # Some("COMPLETE")

\* lines 98-99: not snapshots_metadata
NoMetadata(s) ==
    IF s.snapshotsMetadata = None THEN TRUE ELSE s.snapshotsMetadata[1] = <<>>

\* the whole function, as generate_cluster_summary calls it
analyze_snapshot(s) ==
    IF NotComplete(s) THEN [exc |-> "", val |-> None]
    ELSE IF NoMetadata(s) THEN [exc |-> "", val |-> None]
    ELSE AnalyzeTail(s, MetadataLoop(s.snapshotsMetadata[1], 1, MetadataInit))

-----------------------------------------------------------------------------
(* Lines 167-266 *)

\* lines 171-175: Returns [exc, val], val the list `analyzed`
RECURSIVE AnalyzeAll(_, _, _)
AnalyzeAll(snaps, i, analyzed) ==
    IF i > Len(snaps) THEN [exc |-> "", val |-> analyzed]
    ELSE LET r == analyze_snapshot(snaps[i]) IN
         IF r.exc # "" THEN [exc |-> r.exc, val |-> analyzed]
         ELSE AnalyzeAll(snaps, i + 1,
                         IF r.val # None THEN Append(analyzed, r.val[1]) ELSE analyzed)

\* key(x) < key(y) for the key x['epoch_time'] or 0 of line 181. A value beyond
\* the year 9999 is greater than every value that has a date.
SortKeyLess(x, y) ==
    LET rank(e) == IF e # None /\ e[1].cls = "year_out_of_range" THEN 1 ELSE 0
        secs(e) == IF e # None /\ e[1].cls = "in_range" THEN e[1].secs ELSE 0
    IN  \/ rank(x.epoch_time) < rank(y.epoch_time)
        \/ /\ rank(x.epoch_time) = rank(y.epoch_time)
           /\ secs(x.epoch_time) < secs(y.epoch_time)

\* list.sort(key=..., reverse=True): descending, entries with equal keys keep
\* their order
RECURSIVE SortByEpochDesc(_)
SortByEpochDesc(seq) ==
    IF seq = <<>> THEN <<>>
    ELSE LET sorted == SortByEpochDesc(SubSeq(seq, 1, Len(seq) - 1))
             x == seq[Len(seq)]
             \* x goes behind every entry whose key is not smaller than its own
             k == Cardinality({j \in 1..Len(sorted) : ~SortKeyLess(sorted[j], x)})
         IN  SubSeq(sorted, 1, k) \o <<x>> \o SubSeq(sorted, k + 1, Len(sorted))

\* lines 194-217: the cells of one table row
TableRow(entry) ==
    [ date |-> IF entry.date # None THEN entry.date[1] ELSE "N/A",
      duration |->
          IF entry.duration_val # None
          THEN NumStr(entry.duration_val[1]) \o " " \o entry.duration_unit[1]
          ELSE "N/A",
      backup_type |-> entry.backup_type,
      new_bytes |->
          IF entry.num_new_bytes_val # None
          THEN NumStr(entry.num_new_bytes_val[1]) \o " " \o entry.num_new_bytes_unit[1]
          ELSE "N/A",
      upload_time |->
          IF entry.data_upload_val # None
          THEN NumStr(entry.data_upload_val[1]) \o " " \o entry.data_upload_unit[1]
          ELSE "N/A",
      speed |->
          IF Truthy(entry.transfer_speed)
          THEN NumStr(entry.transfer_speed[1]) \o " MB/s"
          ELSE "N/A",
      snapshot_id |-> entry.snapshot_id ]

RECURSIVE SeqSum(_)
SeqSum(seq) ==
    IF seq = <<>> THEN PyInt(0) ELSE NumAdd(SeqSum(Tail(seq)), Head(seq))

RECURSIVE SeqMin(_)
SeqMin(seq) ==
    IF Len(seq) = 1 THEN seq[1]
    ELSE LET m == SeqMin(Tail(seq)) IN IF NumLess(m, seq[1]) THEN m ELSE seq[1]

RECURSIVE SeqMax(_)
SeqMax(seq) ==
    IF Len(seq) = 1 THEN seq[1]
    ELSE LET m == SeqMax(Tail(seq)) IN IF NumLess(seq[1], m) THEN m ELSE seq[1]

\* [f(s) for s in seq]
RECURSIVE MapSeq(_, _)
MapSeq(f(_), seq) ==
    IF seq = <<>> THEN <<>> ELSE <<f(Head(seq))>> \o MapSeq(f, Tail(seq))

\* f"{val} {unit}" of a (val, unit) pair; None prints as "None"
HumanStr(hr) ==
    IF hr[1] = None THEN "None None" ELSE NumStr(hr[1][1]) \o " " \o hr[2][1]

\* lines 234-238 and 256-260
DurationLine(durations) ==
    "- Duration: Min " \o HumanStr(seconds_to_human_readable(Some(SeqMin(durations))))
    \o ", Max " \o HumanStr(seconds_to_human_readable(Some(SeqMax(durations))))
    \o ", Avg " \o HumanStr(seconds_to_human_readable(
                       Some(NumDiv(SeqSum(durations), Len(durations)))))

\* lines 240-244
BytesLine(new_bytes) ==
    "- Data transferred (numNewBytes): Min "
    \o HumanStr(bytes_to_human_readable(Some(SeqMin(new_bytes))))
    \o ", Max " \o HumanStr(bytes_to_human_readable(Some(SeqMax(new_bytes))))
    \o ", Avg " \o HumanStr(bytes_to_human_readable(
                       Some(NumDiv(SeqSum(new_bytes), Len(new_bytes)))))

\* lines 246-247 and 262-263
SpeedLine(speeds) ==
    "- Transfer speed: Min " \o NumStr(SeqMin(speeds)) \o " MB/s, Max "
    \o NumStr(SeqMax(speeds)) \o " MB/s, Avg "
    \o NumStr(PyRound(NumDiv(SeqSum(speeds), Len(speeds)), 10)) \o " MB/s"

\* variant: a duration of zero counts as a duration
HasDurationCountsZero(s) == s.duration_seconds # None

HasDuration(s) == Truthy(s.duration_seconds)
HasNewBytes(s) == s.num_new_bytes.n # 0
HasSpeed(s) == Truthy(s.transfer_speed)
DurationOf(s) == s.duration_seconds[1]
NewBytesOf(s) == s.num_new_bytes
SpeedOf(s) == s.transfer_speed[1]
IsIncremental(s) == s.is_incremental
IsFull(s) == ~s.is_incremental

\* lines 227-248: the lines of the Incremental block
IncrementalStats(incremental_snapshots) ==
    IF incremental_snapshots = <<>> THEN <<>>
    ELSE LET durations == MapSeq(DurationOf, SelectSeq(incremental_snapshots, HasDuration))
             new_bytes == MapSeq(NewBytesOf, SelectSeq(incremental_snapshots, HasNewBytes))
             speeds    == MapSeq(SpeedOf, SelectSeq(incremental_snapshots, HasSpeed))
         IN  <<"**Incremental Backups (" \o ToString(Len(incremental_snapshots))
               \o " snapshots):**">>
             \o (IF durations # <<>> THEN <<DurationLine(durations)>> ELSE <<>>)
             \o (IF new_bytes # <<>> THEN <<BytesLine(new_bytes)>> ELSE <<>>)
             \o (IF speeds # <<>> THEN <<SpeedLine(speeds)>> ELSE <<>>)
             \o <<"">>

\* lines 250-264: the lines of the Full block
FullStats(full_snapshots) ==
    IF full_snapshots = <<>> THEN <<>>
    ELSE LET durations == MapSeq(DurationOf, SelectSeq(full_snapshots, HasDuration))
             speeds    == MapSeq(SpeedOf, SelectSeq(full_snapshots, HasSpeed))
         IN  <<"**Full Backups (" \o ToString(Len(full_snapshots)) \o " snapshots):**">>
             \o (IF durations # <<>> THEN <<DurationLine(durations)>> ELSE <<>>)
             \o (IF speeds # <<>> THEN <<SpeedLine(speeds)>> ELSE <<>>)
             \o <<"">>

\* The return value, kept in parts: the text is SummaryText below.
\*   exc          "" or the exception that leaves the function
\*   no_metrics   TRUE for the return of line 178
\*   count        len(analyzed), printed on line 186
\*   rows         the table rows of lines 194-217, in order
\*   incremental  the lines of lines 227-248
\*   full         the lines of lines 250-264
generate_cluster_summary(cluster_name, snaps) ==
    LET a == AnalyzeAll(snaps, 1, <<>>) IN
    IF a.exc # ""
    THEN [exc |-> a.exc, cluster |-> cluster_name, no_metrics |-> FALSE, count |-> 0,
          rows |-> <<>>, incremental |-> <<>>, full |-> <<>>]
    ELSE IF a.val = <<>>
    THEN [exc |-> "", cluster |-> cluster_name, no_metrics |-> TRUE, count |-> 0,
          rows |-> <<>>, incremental |-> <<>>, full |-> <<>>]
    ELSE LET analyzed == SortByEpochDesc(a.val) IN
         [ exc |-> "",
           cluster |-> cluster_name,
           no_metrics |-> FALSE,
           count |-> Len(analyzed),
           rows |-> MapSeq(TableRow, analyzed),
           incremental |-> IncrementalStats(SelectSeq(analyzed, IsIncremental)),
           full |-> FullStats(SelectSeq(analyzed, IsFull)) ]

\* "\n".join(lines)
RECURSIVE JoinLines(_)
JoinLines(lines) ==
    IF lines = <<>> THEN ""
    ELSE IF Len(lines) = 1 THEN lines[1]
    ELSE lines[1] \o "\n" \o JoinLines(Tail(lines))

RowLine(r) ==
    "| " \o r.date \o " | " \o r.duration \o " | " \o r.backup_type \o " | "
    \o r.new_bytes \o " | " \o r.upload_time \o " | " \o r.speed \o " | "
    \o r.snapshot_id \o " |"

\* the string generate_cluster_summary returns (lines 178 and 184-266)
SummaryText(sm) ==
    IF sm.no_metrics
    THEN "\n### Cluster: " \o sm.cluster
         \o "\n\nNo detailed backup metrics available for this cluster.\n"
    ELSE JoinLines(
           << "\n### Cluster: " \o sm.cluster,
              "\nTotal snapshots with detailed metrics: " \o ToString(sm.count),
              "",
              "| Date | Duration | Type | numNewBytes | Data Upload Time | Transfer Speed | clustershotId |",
              "|------|----------|------|-------------|------------------|----------------|---------------|" >>
           \o MapSeq(RowLine, sm.rows)
           \o << "", "#### Statistics", "" >>
           \o sm.incremental \o sm.full )

-----------------------------------------------------------------------------
(* Lines 276-371: main *)

\* The code points of the strings that occur as grouping keys
CodePoints(str) ==
    CASE str = ""        -> <<>>
      [] str = "A"       -> <<65>>
      [] str = "B"       -> <<66>>
      [] str = "Unknown" -> <<85, 110, 107, 110, 111, 119, 110>>
      [] str = "rs0"     -> <<114, 115, 48>>

\* a < b for two tuples of code points, as Python compares str
RECURSIVE TupleLess(_, _)
TupleLess(a, b) ==
    IF b = <<>> THEN FALSE
    ELSE IF a = <<>> THEN TRUE
    ELSE IF Head(a) # Head(b) THEN Head(a) < Head(b)
    ELSE TupleLess(Tail(a), Tail(b))

StrLess(a, b) == TupleLess(CodePoints(a), CodePoints(b))

\* variant: the keys in descending order
RECURSIVE SortedKeysDescending(_)
SortedKeysDescending(keys) ==
    IF keys = {} THEN <<>>
    ELSE LET greatest == CHOOSE k \in keys : \A o \in keys \ {k} : StrLess(o, k)
         IN  <<greatest>> \o SortedKeysDescending(keys \ {greatest})

\* sorted(keys), line 328
RECURSIVE SortedKeys(_)
SortedKeys(keys) ==
    IF keys = {} THEN <<>>
    ELSE LET least == CHOOSE k \in keys : \A o \in keys \ {k} : StrLess(k, o)
         IN  <<least>> \o SortedKeys(keys \ {least})

\* variant: an empty clusterName is taken as the key
ClusterKeyFirstPresent(s) ==
    IF s.clusterName # None THEN s.clusterName[1]
    ELSE IF s.rsId # None THEN s.rsId[1] ELSE "Unknown"

\* lines 311-317: the key main files a snapshot under
ClusterKey(s) ==
    IF s.clusterName # None /\ s.clusterName[1] # ""
    THEN s.clusterName[1]
    ELSE IF s.rsId # None THEN s.rsId[1] ELSE "Unknown"

\* clusters[key].append(s) on the defaultdict(list)
AppendTo(cl, key, s) ==
    [k \in DOMAIN cl \cup {key} |->
        IF k = key
        THEN (IF key \in DOMAIN cl THEN Append(cl[key], s) ELSE <<s>>)
        ELSE cl[k]]

Line(str) == [kind |-> "line", text |-> str]
Section(sm) == [kind |-> "summary", text |-> SummaryText(sm), sm |-> sm]

TextOf(block) == block.text

\* variant: the two counts printed under each other's label
HeaderLinesSwapped(input_file, n_clusters, n_snapshots) ==
    << [kind |-> "line", text |-> "# Snapshot History Analysis Report"],
       [kind |-> "line", text |-> "\nGenerated: <utcnow> UTC"],
       [kind |-> "line", text |-> "\nSource file: " \o input_file],
       [kind |-> "line", text |-> "\nTotal clusters found: " \o ToString(n_snapshots)],
       [kind |-> "line", text |-> "Total snapshots analyzed: " \o ToString(n_clusters)] >>

\* lines 320-325; the clock reading of line 322 is not part of the model
HeaderLines(input_file, n_clusters, n_snapshots) ==
    << Line("# Snapshot History Analysis Report"),
       Line("\nGenerated: <utcnow> UTC"),
       Line("\nSource file: " \o input_file),
       Line("\nTotal clusters found: " \o ToString(n_clusters)),
       Line("Total snapshots analyzed: " \o ToString(n_snapshots)) >>

\* lines 333-356; the code fence (three backquotes) is written with three
\* apostrophes, a string here cannot hold a backquote
LegendLines ==
    << Line("\n---"),
       Line("\n### Metrics Explanation"),
       Line(""),
       Line("- **Duration**: Total time taken for the backup to complete"),
       Line("- **Type**: Incremental (only changed data) or Full (complete backup)"),
       Line("- **numNewBytes**: Total number of new or modified bytes transferred during an incremental backup. This represents the actual data payload that the backup agent reads from the WiredTiger checkpoint and sends to the Ops Manager, which then uploads it to the backup storage. Higher values indicate more data changes since the last snapshot, directly resulting in longer backup times. This field is not applicable (N/A) for Full backups."),
       Line("- **Data Upload Time**: Time spent uploading data blocks to backup storage"),
       Line("- **Transfer Speed**: Average data transfer rate during the backup"),
       Line("- **clustershotId**: Unique identifier for the snapshot entry. Use this to locate the corresponding document in snapshotHistory.json for validation or detailed analysis."),
       Line(""),
       Line("### How to Validate Entries"),
       Line(""),
       Line("To find a specific snapshot entry in snapshotHistory.json using clustershotId, run:"),
       Line("'''bash"),
       Line("jq '.[] | select(.clustershotId == \"<clustershotId>\")' snapshotHistory.json"),
       Line("'''"),
       Line(""),
       Line("For replica set snapshots (without clustershotId), use _id:"),
       Line("'''bash"),
       Line("jq '.[] | select(._id == \"<_id>\")' snapshotHistory.json"),
       Line("'''") >>

\* line 359
final_report == JoinLines(MapSeq(TextOf, report))

\* sys.exit(status), and the end of main
Exit(status) == pc' = "exit" /\ exitStatus' = Some(status)

\* lines 280-294
CheckArgs ==
    /\ pc = "args"
    /\ \/ Len(argv) < 1 /\ Exit(1)
       \/ Len(argv) >= 1 /\ pc' = "load" /\ UNCHANGED exitStatus
    /\ UNCHANGED <<argv, inputFile, outputFile, snapshots, idx, clusters, todo,
                   summary, report, snapshot, totals, result>>

\* lines 296-305
LoadInput ==
    /\ pc = "load"
    /\ \/ inputFile.kind = "missing" /\ Exit(1) /\ UNCHANGED <<snapshots, idx>>
       \/ inputFile.kind = "invalid_json" /\ Exit(1) /\ UNCHANGED <<snapshots, idx>>
       \/ /\ inputFile.kind = "json"
          /\ snapshots' = inputFile.docs
          /\ idx' = 1
          /\ pc' = "group"
          /\ UNCHANGED exitStatus
    /\ UNCHANGED <<argv, inputFile, outputFile, clusters, todo, summary, report,
                   snapshot, totals, result>>

\* lines 310-317: one iteration of the grouping loop
GroupSnapshot ==
    /\ pc = "group"
    /\ idx <= Len(snapshots)
    /\ clusters' = AppendTo(clusters, ClusterKey(snapshots[idx]), snapshots[idx])
    /\ idx' = idx + 1
    /\ UNCHANGED <<pc, argv, inputFile, outputFile, snapshots, todo, summary, report,
                   exitStatus, snapshot, totals, result>>

\* lines 320-328: the header, and the sorted keys the loop of line 328 walks
StartReport ==
    /\ pc = "group"
    /\ idx > Len(snapshots)
    /\ report' = HeaderLines(argv[1], Cardinality(DOMAIN clusters), Len(snapshots))
    /\ todo' = SortedKeys(DOMAIN clusters)
    /\ pc' = "summaries"
    /\ UNCHANGED <<argv, inputFile, outputFile, snapshots, idx, clusters, summary,
                   exitStatus, snapshot, totals, result>>

\* lines 328-331: one iteration. An exception that leaves
\* generate_cluster_summary is caught nowhere: the interpreter prints the
\* traceback and ends the process with status 1.
ClusterSummary ==
    /\ pc = "summaries"
    /\ todo # <<>>
    /\ summary' = Some(generate_cluster_summary(Head(todo), clusters[Head(todo)]))
    /\ \/ /\ summary'[1].exc = ""
          /\ report' = Append(report, Section(summary'[1]))
          /\ todo' = Tail(todo)
          /\ UNCHANGED <<pc, exitStatus>>
       \/ /\ summary'[1].exc # ""
          /\ Exit(1)
          /\ UNCHANGED <<report, todo>>
    /\ UNCHANGED <<argv, inputFile, outputFile, snapshots, idx, clusters, snapshot, totals, result>>

\* lines 333-356
AddLegend ==
    /\ pc = "summaries"
    /\ todo = <<>>
    /\ report' = report \o LegendLines
    /\ pc' = "write"
    /\ UNCHANGED <<argv, inputFile, outputFile, snapshots, idx, clusters, todo, summary,
                   exitStatus, snapshot, totals, result>>

\* lines 358-371. open(output_file, 'w') either fails and leaves the path as it
\* was, or creates/truncates the file; the write (and the flush on close) then
\* either stores final_report or fails after a prefix of it reached the disk.
WriteReport ==
    /\ pc = "write"
    /\ \/ /\ outputFile' = [kind |-> "report", text |-> final_report]
          /\ Exit(0)
       \/ /\ UNCHANGED outputFile
          /\ Exit(1)
       \/ /\ \E cut \in {0, Len(report) - 1} :
                outputFile' = [kind |-> "partial",
                               text |-> JoinLines(MapSeq(TextOf, SubSeq(report, 1, cut)))]
          /\ Exit(1)
    /\ UNCHANGED <<argv, inputFile, snapshots, idx, clusters, todo, summary, report,
                   snapshot, totals, result>>

-----------------------------------------------------------------------------
(* analyze_snapshot step by step, lines 81-164 *)

\* lines 86-108: the early returns, and the accumulators set up
AnalyzeStart ==
    /\ pc = "analyze"
    /\ \/ /\ NotComplete(snapshot)
          /\ result' = Some([exc |-> "", val |-> None])
          /\ pc' = "returned"
          /\ UNCHANGED <<totals, idx>>
       \/ /\ ~NotComplete(snapshot)
          /\ NoMetadata(snapshot)
          /\ result' = Some([exc |-> "", val |-> None])
          /\ pc' = "returned"
          /\ UNCHANGED <<totals, idx>>
       \/ /\ ~NotComplete(snapshot)
          /\ ~NoMetadata(snapshot)
          /\ totals' = MetadataInit
          /\ idx' = 1
          /\ pc' = "metadata_loop"
          /\ UNCHANGED result
    /\ UNCHANGED <<argv, inputFile, outputFile, snapshots, clusters, todo, summary,
                   report, exitStatus, snapshot>>

\* lines 110-129: one iteration
MetadataIter ==
    /\ pc = "metadata_loop"
    /\ idx <= Len(snapshot.snapshotsMetadata[1])
    /\ totals' = MetadataStep(totals, snapshot.snapshotsMetadata[1][idx])
    /\ idx' = idx + 1
    /\ UNCHANGED <<pc, argv, inputFile, outputFile, snapshots, clusters, todo, summary,
                   report, exitStatus, snapshot, result>>

\* lines 131-164
AnalyzeFinish ==
    /\ pc = "metadata_loop"
    /\ idx > Len(snapshot.snapshotsMetadata[1])
    /\ result' = Some(AnalyzeTail(snapshot, totals))
    /\ \/ result'[1].exc = "" /\ pc' = "returned"
       \/ result'[1].exc # "" /\ pc' = "raised"
    /\ UNCHANGED <<argv, inputFile, outputFile, snapshots, idx, clusters, todo, summary,
                   report, exitStatus, snapshot, totals>>

\* generate_cluster_summary as one call, lines 167-266
Summarize ==
    /\ pc = "summarize"
    /\ summary' = Some(generate_cluster_summary("A", snapshots))
    /\ \/ summary'[1].exc = "" /\ pc' = "returned"
       \/ summary'[1].exc # "" /\ pc' = "raised"
    /\ UNCHANGED <<argv, inputFile, outputFile, snapshots, idx, clusters, todo, report,
                   exitStatus, snapshot, totals, result>>

-----------------------------------------------------------------------------
(* Input domains *)

MaxDocs == 2          \* documents in the input file
MaxMeta == 2          \* snapshotsMetadata entries of a document given to analyze_snapshot
MaxSummaryDocs == 2   \* documents given to generate_cluster_summary

SeqsUpTo(S, len) == UNION {[1..k -> S] : k \in 0..len}

InRange(secs) == [cls |-> "in_range", secs |-> secs]
OutOfRange(cls) == [cls |-> cls, secs |-> 0]

EmptyEntry ==
    [ state |-> None, numNewBytes |-> None, numNewCompressedBytes |-> None,
      dataBlockUploadDuration |-> None, transferSpeed |-> None ]

EmptyDoc ==
    [ state |-> None, clusterName |-> None, rsId |-> None, clustershotId |-> None,
      id |-> None, totalDuration |-> None, startTime |-> None, lastUpdateTS |-> None,
      incrementalBackup |-> None, snapshotsMetadata |-> None ]

\* {state: COMPLETE, numNewBytes: 2147483648, dataBlockUploadDuration: 60,
\*  transferSpeed: 35.5}
ScenarioEntry ==
    [ EmptyEntry EXCEPT !.state = Some("COMPLETE"),
                        !.numNewBytes = Some(PyInt(2097152)),
                        !.dataBlockUploadDuration = Some(PyInt(60)),
                        !.transferSpeed = Some(PyFloat(355, 10)) ]

\* {state: COMPLETE, clusterName: A, totalDuration: 120,
\*  startTime: {time: 1700000000}, snapshotsMetadata: [ScenarioEntry]}
ScenarioDoc ==
    [ EmptyDoc EXCEPT !.state = Some("COMPLETE"),
                      !.clusterName = Some("A"),
                      !.totalDuration = Some(PyInt(120)),
                      !.startTime = Some(InRange(1700000000)),
                      !.snapshotsMetadata = Some(<<ScenarioEntry>>) ]

\* a COMPLETE entry that carries no metric
BareEntry == [EmptyEntry EXCEPT !.state = Some("COMPLETE")]

\* snapshotsMetadata entries for analyze_snapshot
MetaSet ==
    \* the two byte fields against each other, with and without a speed
    { [BareEntry EXCEPT !.numNewBytes = b[1], !.numNewCompressedBytes = b[2],
                        !.transferSpeed = sp] :
        b \in { <<None, None>>,
                <<Some(PyInt(0)), Some(PyInt(5))>>,
                <<Some(PyInt(2048)), Some(PyInt(7))>>,
                <<None, Some(PyInt(3))>>,
                <<Some(PyInt(2097152)), None>> },
        sp \in {None, Some(PyFloat(355, 10))} }
    \cup
    { [BareEntry EXCEPT !.dataBlockUploadDuration = Some(PyInt(u))] : u \in {0, 60} }
    \cup
    \* a zero, a negative and a second positive speed (10.0 MB/s as an int)
    { [BareEntry EXCEPT !.transferSpeed = Some(sp)] :
        sp \in {PyInt(0), PyFloat(-10, 10), PyInt(10)} }
    \cup
    { [ScenarioEntry EXCEPT !.state = Some("FAILED")],
      [ScenarioEntry EXCEPT !.state = None] }

\* documents for analyze_snapshot
AnalyzeDocs ==
    { [EmptyDoc EXCEPT !.state = st, !.totalDuration = td, !.startTime = t,
                       !.snapshotsMetadata = md] :
        st \in {None, Some("COMPLETE"), Some("FAILED")},
        td \in {None, Some(PyInt(0)), Some(PyInt(120))},
        t  \in {Some(InRange(1700000000)), Some(OutOfRange("time_t_overflow"))},
        md \in {None} \cup {Some(m) : m \in SeqsUpTo(MetaSet, MaxMeta)} }

\* documents for generate_cluster_summary: durations absent, zero and two
\* different positive ones; bytes and speed present, bytes alone, neither
SummaryDocs ==
    { [ScenarioDoc EXCEPT !.totalDuration = td, !.incrementalBackup = inc,
                          !.snapshotsMetadata = Some(<<e>>)] :
        td  \in {None, Some(PyInt(0)), Some(PyInt(45)), Some(PyInt(120))},
        inc \in {None, Some(TRUE)},
        e   \in { [ScenarioEntry EXCEPT !.numNewBytes = Some(PyInt(2048))],
                  [BareEntry EXCEPT !.numNewBytes = Some(PyInt(1024)),
                                    !.transferSpeed = Some(PyInt(10))],
                  [BareEntry EXCEPT !.dataBlockUploadDuration = Some(PyInt(60))] } }

\* documents of the input file of main
MainDocs ==
    \* every shape of the grouping key
    { [ScenarioDoc EXCEPT !.clusterName = c, !.rsId = r] :
        c \in {None, Some(""), Some("A"), Some("B")},
        r \in {None, Some(""), Some("rs0")} }
    \cup
    \* documents that are not COMPLETE
    { [ScenarioDoc EXCEPT !.state = Some("FAILED"), !.clusterName = c] :
        c \in {None, Some("A"), Some("B")} }
    \cup
    { [ScenarioDoc EXCEPT !.state = None],
      [ScenarioDoc EXCEPT !.state = Some("FAILED"),
                          !.startTime = Some(OutOfRange("not_a_number"))] }
    \cup
    \* COMPLETE documents without usable metrics
    { [ScenarioDoc EXCEPT !.clusterName = c, !.snapshotsMetadata = Some(<<>>)] :
        c \in {Some("A"), Some("B")} }
    \cup
    \* the epoch: absent, from lastUpdateTS, and the values without a date
    { [ScenarioDoc EXCEPT !.startTime = None],
      [ScenarioDoc EXCEPT !.startTime = None, !.lastUpdateTS = Some(InRange(86400))],
      [ScenarioDoc EXCEPT !.startTime = Some(OutOfRange("year_out_of_range"))],
      [ScenarioDoc EXCEPT !.startTime = Some(OutOfRange("time_t_overflow"))],
      [ScenarioDoc EXCEPT !.startTime = Some(OutOfRange("not_a_number"))] }
    \cup
    \* an incremental snapshot with an id, and one with an _id only
    { [ScenarioDoc EXCEPT !.incrementalBackup = Some(TRUE),
                          !.totalDuration = Some(PyInt(45)),
                          !.clustershotId = Some("cs1")],
      [ScenarioDoc EXCEPT !.id = Some([kind |-> "oid", v |-> "65a1"]),
                          !.totalDuration = None] }

InputFiles ==
    { [kind |-> "missing", docs |-> <<>>], [kind |-> "invalid_json", docs |-> <<>>] }
    \cup { [kind |-> "json", docs |-> d] : d \in SeqsUpTo(MainDocs, MaxDocs) }

OutputFiles ==
    { [kind |-> "absent", text |-> ""], [kind |-> "previous", text |-> "an earlier report"] }

-----------------------------------------------------------------------------
(* Specifications *)

\* what a specification does not use
Idle(used) ==
    /\ "argv" \in used \/ argv = <<>>
    /\ "inputFile" \in used \/ inputFile = [kind |-> "missing", docs |-> <<>>]
    /\ "outputFile" \in used \/ outputFile = [kind |-> "absent", text |-> ""]
    /\ "snapshots" \in used \/ snapshots = <<>>
    /\ idx = 0
    /\ clusters = <<>>
    /\ todo = <<>>
    /\ summary = None
    /\ report = <<>>
    /\ exitStatus = None
    /\ "snapshot" \in used \/ snapshot = EmptyDoc
    /\ totals = MetadataInit
    /\ result = None

\* a run of the program
Init ==
    /\ pc = "args"
    /\ argv \in {<<>>, <<"snapshotHistory.json">>}
    /\ inputFile \in InputFiles
    /\ argv = <<>> => inputFile.kind = "missing"
    /\ outputFile \in OutputFiles
    /\ Idle({"argv", "inputFile", "outputFile"})

Next ==
    \/ CheckArgs
    \/ LoadInput
    \/ GroupSnapshot
    \/ StartReport
    \/ ClusterSummary
    \/ AddLegend
    \/ WriteReport

Spec == Init /\ [][Next]_vars

\* one call of analyze_snapshot
InitAnalyze ==
    /\ pc = "analyze"
    /\ snapshot \in AnalyzeDocs
    /\ Idle({"snapshot"})

NextAnalyze == AnalyzeStart \/ MetadataIter \/ AnalyzeFinish

SpecAnalyze == InitAnalyze /\ [][NextAnalyze]_vars

\* one call of generate_cluster_summary
InitSummary ==
    /\ pc = "summarize"
    /\ snapshots \in SeqsUpTo(SummaryDocs, MaxSummaryDocs)
    /\ Idle({"snapshots"})

NextSummary == Summarize

SpecSummary == InitSummary /\ [][NextSummary]_vars

-----------------------------------------------------------------------------
(* Vocabulary of the properties. These definitions restate the documented
   behaviour on the input; they do not use the operators above that decide
   the same thing. *)

IsSection(block) == block.kind = "summary"

\* the cluster sections of the report so far, in order
Sections == SelectSeq(report, IsSection)

\* header, sections and legend are all in the list `report`
ReportBuilt ==
    /\ Len(report) >= 5 + Len(LegendLines)
    /\ SubSeq(report, Len(report) - Len(LegendLines) + 1, Len(report)) = LegendLines

RemoveAt(seq, i) == SubSeq(seq, 1, i - 1) \o SubSeq(seq, i + 1, Len(seq))

\* the grouping key: a non-empty clusterName, else the rsId when the document
\* has the field, else "Unknown"
GroupingKey(d) ==
    IF d.clusterName \notin {None, Some("")} THEN d.clusterName[1]
    ELSE IF d.rsId # None THEN d.rsId[1]
    ELSE "Unknown"

\* the grouping key read as "the first field the document has"
FirstPresentKey(d) ==
    IF d.clusterName # None THEN d.clusterName[1]
    ELSE IF d.rsId # None THEN d.rsId[1]
    ELSE "Unknown"

\* the grouping key read as "the first field that is not empty"
FirstNonEmptyKey(d) ==
    IF d.clusterName \notin {None, Some("")} THEN d.clusterName[1]
    ELSE IF d.rsId \notin {None, Some("")} THEN d.rsId[1]
    ELSE "Unknown"

DocsWithKey(docs, k) == SelectSeq(docs, LAMBDA d : GroupingKey(d) = k)

KeysOf(docs) == {GroupingKey(docs[i]) : i \in 1..Len(docs)}

CompleteDoc(d) == d.state = Some("COMPLETE")

EntryHasMetric(e) ==
    \E v \in {e.numNewBytes, e.numNewCompressedBytes, e.dataBlockUploadDuration,
              e.transferSpeed} : v # None /\ v[1].n # 0

\* the three conditions of the eligibility rule for a COMPLETE document
EligibleMetadata(d) ==
    /\ d.snapshotsMetadata # None
    /\ d.snapshotsMetadata[1] # <<>>
    /\ \A i \in 1..Len(d.snapshotsMetadata[1]) :
          d.snapshotsMetadata[1][i].state = Some("COMPLETE")
    /\ \/ d.totalDuration # None
       \/ \E i \in 1..Len(d.snapshotsMetadata[1]) :
             EntryHasMetric(d.snapshotsMetadata[1][i])

EligibleDoc(d) == CompleteDoc(d) /\ EligibleMetadata(d)

\* the epoch of a document: startTime.time, else lastUpdateTS.time
EpochOf(d) == IF d.startTime # None THEN d.startTime ELSE d.lastUpdateTS

\* the epoch is invalid or out of range for date conversion
EpochWithoutDate(d) == EpochOf(d) # None /\ EpochOf(d)[1].cls # "in_range"

NoMetricsText(k) ==
    "\n### Cluster: " \o k \o "\n\nNo detailed backup metrics available for this cluster.\n"

-----------------------------------------------------------------------------
(* C1 *)

\* the section of cluster "A" has exactly one row, with these cells
ScenarioRow(upload) ==
    \E i \in 1..Len(Sections) :
        /\ Sections[i].sm.cluster = "A"
        /\ Len(Sections[i].sm.rows) = 1
        /\ Sections[i].sm.rows[1].duration = "2.0 minutes"
        /\ Sections[i].sm.rows[1].backup_type = "Full"
        /\ Sections[i].sm.rows[1].new_bytes = "2.0 GB"
        /\ Sections[i].sm.rows[1].upload_time = upload
        /\ Sections[i].sm.rows[1].speed = "35.5 MB/s"

ScenarioInput == inputFile.kind = "json" /\ inputFile.docs = <<ScenarioDoc>>

\* C1 as stated: for the scenario input the report has a section for cluster
\* "A" with one row: duration "2.0 minutes", type "Full", bytes "2.0 GB",
\* upload time "1.0 minutes", speed "35.5 MB/s".
C1_AsStated == (ScenarioInput /\ ReportBuilt) => ScenarioRow("1.0 minutes")

\* C1 amended: the same row, its upload-time cell reading "1.0 minute" (the
\* unit is singular when the rounded value is 1).
C1_ScenarioRow == (ScenarioInput /\ ReportBuilt) => ScenarioRow("1.0 minute")

C1_Witness == ScenarioInput /\ pc = "exit" /\ exitStatus = Some(0)

-----------------------------------------------------------------------------
(* C2 *)

\* C2: a document whose state is not "COMPLETE" (or absent) gets no result
\* from analyze_snapshot, and every cluster section is the one its COMPLETE
\* documents alone produce: such a document contributes no row, whatever its
\* other fields hold.
C2_NotCompleteContributesNothing ==
    /\ \A i \in 1..Len(snapshots) :
          snapshots[i].state # Some("COMPLETE")
              => analyze_snapshot(snapshots[i]) = [exc |-> "", val |-> None]
    /\ \A i \in 1..Len(Sections) :
          LET k == Sections[i].sm.cluster IN
          Sections[i].sm =
              generate_cluster_summary(k, SelectSeq(DocsWithKey(snapshots, k), CompleteDoc))

\* a finished report with a table in the cluster of a document that is not
\* COMPLETE and carries metrics
C2_Witness ==
    /\ ReportBuilt
    /\ \E i \in 1..Len(snapshots), j \in 1..Len(Sections) :
          /\ ~CompleteDoc(snapshots[i])
          /\ EligibleMetadata(snapshots[i])
          /\ Sections[j].sm.cluster = GroupingKey(snapshots[i])
          /\ Len(Sections[j].sm.rows) = 1

-----------------------------------------------------------------------------
(* C3 *)

HeaderCounts(docs) ==
    << "\nTotal clusters found: " \o ToString(Cardinality(KeysOf(docs))),
       "Total snapshots analyzed: " \o ToString(Len(docs)) >>

\* what a cluster section prints about its snapshots
SectionCounts(sm) == <<sm.count, sm.rows, sm.incremental, sm.full>>

\* the sections print what they would print without document i
SectionsWithout(i) ==
    \A j \in 1..Len(Sections) :
        LET k == Sections[j].sm.cluster IN
        SectionCounts(Sections[j].sm) =
            SectionCounts(generate_cluster_summary(k, DocsWithKey(RemoveAt(snapshots, i), k)))

\* C3 as stated: a FAILED document is excluded from every count the report
\* prints: the two header counts, the per-cluster count and the
\* Incremental/Full counts are those of the input without the document.
C3_AsStated ==
    ReportBuilt =>
        \A i \in 1..Len(snapshots) :
            snapshots[i].state = Some("FAILED") =>
                /\ <<report[4].text, report[5].text>> = HeaderCounts(RemoveAt(snapshots, i))
                /\ SectionsWithout(i)

\* C3 amended: a FAILED document produces no row and is excluded from the
\* per-cluster count and the Incremental/Full counts, but the header counts
\* include it: "Total snapshots analyzed" is the number of input documents and
\* "Total clusters found" the number of grouping keys, its own among them.
C3_FailedCounts ==
    ReportBuilt =>
        \A i \in 1..Len(snapshots) :
            snapshots[i].state = Some("FAILED") =>
                /\ <<report[4].text, report[5].text>> = HeaderCounts(snapshots)
                /\ SectionsWithout(i)

\* a finished report over a FAILED document and an eligible one in one cluster
C3_Witness ==
    /\ ReportBuilt
    /\ \E i, j \in 1..Len(snapshots) :
          /\ snapshots[i].state = Some("FAILED")
          /\ EligibleDoc(snapshots[j])
          /\ GroupingKey(snapshots[i]) = GroupingKey(snapshots[j])

-----------------------------------------------------------------------------
(* C4 *)

Yields == result # None /\ result[1].exc = "" /\ result[1].val # None

\* C4 as stated: for a COMPLETE document analyze_snapshot yields an
\* AnalyzedSnapshot exactly when snapshotsMetadata is non-empty, every entry
\* is COMPLETE, and totalDuration is present or an entry has a truthy metric.
C4_AsStated ==
    (pc \in {"returned", "raised"} /\ CompleteDoc(snapshot))
        => (Yields <=> EligibleMetadata(snapshot))

-----------------------------------------------------------------------------
(* C5 *)

SectionKeys == [i \in 1..Len(Sections) |-> Sections[i].sm.cluster]

\* C5: the sections emitted are in strictly ascending order of the grouping
\* key (so no key twice), each is the section of a key of the input, the
\* finished report has one for every key, and the section of a cluster without
\* an eligible document is the heading with the "No detailed backup metrics"
\* line.
C5_SectionsPerKey ==
    /\ \A i, j \in 1..Len(Sections) : i < j => StrLess(SectionKeys[i], SectionKeys[j])
    /\ \A i \in 1..Len(Sections) : SectionKeys[i] \in KeysOf(snapshots)
    /\ ReportBuilt => {SectionKeys[i] : i \in 1..Len(Sections)} = KeysOf(snapshots)
    /\ \A i \in 1..Len(Sections) :
          LET docs == DocsWithKey(snapshots, SectionKeys[i]) IN
          (\A n \in 1..Len(docs) : ~EligibleDoc(docs[n]))
              => /\ Sections[i].sm.no_metrics
                 /\ Sections[i].text = NoMetricsText(SectionKeys[i])

\* a finished report with two sections, one of a cluster without an eligible
\* document
C5_Witness ==
    /\ ReportBuilt
    /\ Len(Sections) = 2
    /\ \E i \in 1..2 : Sections[i].sm.no_metrics

-----------------------------------------------------------------------------
(* C6 *)

\* the documents the grouping loop has filed
Grouped ==
    IF pc = "group" THEN SubSeq(snapshots, 1, idx - 1)
    ELSE IF pc \in {"summaries", "write"} THEN snapshots
    ELSE <<>>

\* the groups are those of the key function `key`: one group per key, holding
\* the documents of that key, each once, in input order
GroupsBy(key(_)) ==
    pc \in {"group", "summaries", "write"} =>
        /\ DOMAIN clusters = {key(Grouped[i]) : i \in 1..Len(Grouped)}
        /\ \A k \in DOMAIN clusters :
              clusters[k] = SelectSeq(Grouped, LAMBDA d : key(d) = k)

\* C6 as stated: the key is the clusterName when the document has one, else
\* the rsId when it has one, else "Unknown"; with "has one" read as "has the
\* field" or read as "has a non-empty value", the same way for both fields.
C6_AsStated == GroupsBy(FirstPresentKey) \/ GroupsBy(FirstNonEmptyKey)

\* C6 amended: the key is the clusterName when the document has a non-empty
\* one, else the rsId when it has the field (an empty rsId included), else
\* "Unknown"; every document is in exactly one group, in input order.
C6_Grouping == GroupsBy(GroupingKey)

\* two documents filed, one with an empty clusterName and an rsId
C6_Witness ==
    /\ pc = "summaries"
    /\ Len(snapshots) = 2
    /\ \E i \in 1..2 : snapshots[i].clusterName = Some("") /\ snapshots[i].rsId = Some("rs0")

-----------------------------------------------------------------------------
(* C7 *)

OutputUntouched == outputFile \in OutputFiles

\* C7 as stated: the output file is written only once the whole report is
\* built; a missing or invalid input ends the run with status 1 and the
\* output untouched; a failed run never leaves a partial report; a successful
\* run ends with status 0 and the report written.
C7_AsStated ==
    /\ ~OutputUntouched => ReportBuilt
    /\ (pc = "exit" /\ argv # <<>> /\ inputFile.kind # "json")
           => exitStatus = Some(1) /\ OutputUntouched
    /\ (pc = "exit" /\ exitStatus # Some(0)) => outputFile.kind # "partial"
    /\ (pc = "exit" /\ exitStatus = Some(0))
           => outputFile = [kind |-> "report", text |-> final_report]

-----------------------------------------------------------------------------
(* C8 *)

\* C8 as stated: an epoch that is invalid or out of range does not fail the
\* run: no exception ends it, and the row of the snapshot shows "N/A" as date.
C8_AsStated ==
    (\E i \in 1..Len(snapshots) : EpochWithoutDate(snapshots[i])) =>
        /\ summary = None \/ summary[1].exc = ""
        /\ \A j \in 1..Len(Sections) :
              LET docs == DocsWithKey(snapshots, Sections[j].sm.cluster) IN
              (Len(docs) = 1 /\ EpochWithoutDate(docs[1]) /\ EligibleDoc(docs[1]))
                  => Sections[j].sm.rows[1].date = "N/A"

-----------------------------------------------------------------------------
(* C9 *)

RECURSIVE SumOver(_, _)
SumOver(f(_), seq) ==
    IF seq = <<>> THEN PyInt(0) ELSE NumAdd(f(Head(seq)), SumOver(f, Tail(seq)))

\* numNewBytes if truthy, else numNewCompressedBytes if truthy, else 0
EntryNewBytes(e) ==
    IF e.numNewBytes # None /\ e.numNewBytes[1].n # 0 THEN e.numNewBytes[1]
    ELSE IF e.numNewCompressedBytes # None /\ e.numNewCompressedBytes[1].n # 0
    THEN e.numNewCompressedBytes[1]
    ELSE PyInt(0)

EntryUpload(e) ==
    IF e.dataBlockUploadDuration # None THEN e.dataBlockUploadDuration[1] ELSE PyInt(0)

PositiveSpeed(e) == e.transferSpeed # None /\ e.transferSpeed[1].n > 0

EntrySpeed(e) == e.transferSpeed[1]

-----------------------------------------------------------------------------
(* C10 *)

\* the AnalyzedSnapshots of the call, most recent first
Analyzed == SortByEpochDesc(AnalyzeAll(snapshots, 1, <<>>).val)

MetricDuration(s) == s.duration_seconds
MetricNewBytes(s) == Some(s.num_new_bytes)
MetricSpeed(s) == s.transfer_speed

\* the values of a metric over the entries of `subset` that have it, nonzero
Contributing(metric(_), subset) ==
    LET has(s) == metric(s) # None /\ metric(s)[1].n # 0
        val(s) == metric(s)[1]
    IN  MapSeq(val, SelectSeq(subset, has))

Least(vals) == vals[CHOOSE i \in 1..Len(vals) : \A j \in 1..Len(vals) : ~NumLess(vals[j], vals[i])]
Greatest(vals) == vals[CHOOSE i \in 1..Len(vals) : \A j \in 1..Len(vals) : ~NumLess(vals[i], vals[j])]
Mean(vals) == NumDiv(SumOver(LAMBDA v : v, vals), Len(vals))

StatLine(label, least, greatest, mean) ==
    label \o "Min " \o least \o ", Max " \o greatest \o ", Avg " \o mean

ExpectedDuration(vals) ==
    IF vals = <<>> THEN <<>>
    ELSE << StatLine("- Duration: ",
                     HumanStr(seconds_to_human_readable(Some(Least(vals)))),
                     HumanStr(seconds_to_human_readable(Some(Greatest(vals)))),
                     HumanStr(seconds_to_human_readable(Some(Mean(vals))))) >>

ExpectedBytes(vals) ==
    IF vals = <<>> THEN <<>>
    ELSE << StatLine("- Data transferred (numNewBytes): ",
                     HumanStr(bytes_to_human_readable(Some(Least(vals)))),
                     HumanStr(bytes_to_human_readable(Some(Greatest(vals)))),
                     HumanStr(bytes_to_human_readable(Some(Mean(vals))))) >>

ExpectedSpeed(vals) ==
    IF vals = <<>> THEN <<>>
    ELSE << StatLine("- Transfer speed: ",
                     NumStr(Least(vals)) \o " MB/s",
                     NumStr(Greatest(vals)) \o " MB/s",
                     NumStr(PyRound(Mean(vals), 10)) \o " MB/s") >>

ExpectedBlock(title, subset, with_bytes) ==
    IF subset = <<>> THEN <<>>
    ELSE << "**" \o title \o " Backups (" \o ToString(Len(subset)) \o " snapshots):**" >>
         \o ExpectedDuration(Contributing(MetricDuration, subset))
         \o (IF with_bytes THEN ExpectedBytes(Contributing(MetricNewBytes, subset)) ELSE <<>>)
         \o ExpectedSpeed(Contributing(MetricSpeed, subset))
         \o << "" >>

\* the number of table rows of a backup type
RowsOfType(type) ==
    Cardinality({i \in 1..Len(summary[1].rows) : summary[1].rows[i].backup_type = type})

\* C10: the AnalyzedSnapshots split into an Incremental and a Full subset that
\* hold every row exactly once; each non-empty subset prints min/max/average of
\* duration, of bytes (Incremental only) and of speed over those of its
\* entries that have the metric, nonzero; an entry without the metric is left
\* out, and a statistic without any contributing entry is not printed.
C10_Statistics ==
    (pc = "returned" /\ ~summary[1].no_metrics) =>
        LET inc  == SelectSeq(Analyzed, LAMBDA s : s.backup_type = "Incremental")
            full == SelectSeq(Analyzed, LAMBDA s : s.backup_type = "Full")
        IN  /\ Len(inc) + Len(full) = Len(summary[1].rows)
            /\ RowsOfType("Incremental") = Len(inc)
            /\ RowsOfType("Full") = Len(full)
            /\ summary[1].incremental = ExpectedBlock("Incremental", inc, TRUE)
            /\ summary[1].full = ExpectedBlock("Full", full, FALSE)

\* two Full snapshots, one with a duration and one with a zero duration, and
\* only one of them with a speed
C10_Witness ==
    /\ pc = "returned"
    /\ Len(summary[1].rows) = 2
    /\ \A i \in 1..2 : summary[1].rows[i].backup_type = "Full"
    /\ \E i, j \in 1..2 :
          /\ summary[1].rows[i].duration = "N/A" /\ summary[1].rows[j].duration # "N/A"
          /\ snapshots[i].totalDuration = Some(PyInt(0))
    /\ \E i, j \in 1..2 :
          summary[1].rows[i].speed = "N/A" /\ summary[1].rows[j].speed # "N/A"
    /\ Len(summary[1].full) = 4

====
